---- MODULE Spec2Model ----
(***************************************************************************)
(* TaskStateService (state/task-state.service.ts) on top of TaskService    *)
(* (core/services/task.service.ts) and a REST backend.                      *)
(*                                                                         *)
(* The state service keeps three BehaviorSubjects (tasks, loading, error)  *)
(* and applies create/update/delete optimistically; every handler runs to  *)
(* completion on the single JavaScript thread, so each handler is one      *)
(* action.  A network call is split into three steps: the request leaves   *)
(* (part of the invoking action), the backend handles it (Server*           *)
(* actions), and the response arrives (the *Success / *Fail actions).      *)
(* Requests of different calls may be handled, and their responses may     *)
(* arrive, in any order.                                                   *)
(*                                                                         *)
(* An entity carries the fields id (_id in the source), title, description *)
(* and status; the date fields (dueDate, createdAt, updatedAt) are not     *)
(* carried.                                                                *)
(***************************************************************************)
EXTENDS Integers, Sequences, FiniteSets, TLC

(* ---------------------------------------------------------------------- *)
(* Bounds of the model                                                     *)
(* ---------------------------------------------------------------------- *)
\* number of create/update/delete calls that reach the network
MaxOps == 2
\* number of HTTP GET /tasks requests
MaxGets == 2
\* largest value of Date.now() (milliseconds since the service was built)
MaxClock == 1

(* ---------------------------------------------------------------------- *)
(* Values                                                                  *)
(* ---------------------------------------------------------------------- *)
\* a field that is not present in a Partial<Task> / a JSON payload
Undef == "undefined"
\* BehaviorSubject<string | null>(null)
Null == "null"

Statuses == {"todo", "doing", "done"}

\* placeholder where a record field holds no task
NoTask == [id |-> "", title |-> "", description |-> "", status |-> ""]
\* placeholder where a record field holds no Partial<Task>
NoUpdates == [title |-> Undef, description |-> Undef, status |-> Undef]

\* drafts handed to createTask (Omit<Task, '_id' | 'createdAt' | 'updatedAt'>)
Drafts ==
    { [title |-> "B", description |-> "", status |-> "todo"] }

\* partial updates handed to updateTask: one field each
Patches ==
    { [title |-> "T2", description |-> Undef, status |-> Undef],
      [title |-> Undef, description |-> "d2", status |-> Undef],
      [title |-> Undef, description |-> Undef, status |-> "done"] }

\* the failures a request can end with, as handleError tells them apart:
\* a body {error: {message}} from the backend, or no usable body at all
ErrorResponses ==
    { [nested |-> "Task not found", message |-> Undef, status |-> 404,
       httpMessage |-> "Http failure response"],
      [nested |-> Undef, message |-> Undef, status |-> 500,
       httpMessage |-> "Http failure response"] }

\* the answer of the backend to a request for an id it does not hold
NotFoundResponse ==
    [nested |-> "Task not found", message |-> Undef, status |-> 404,
     httpMessage |-> "Http failure response"]

\* `temp-${Date.now()}`
TempId(ms) == "temp-" \o ToString(ms)

\* the ids the backend assigns
ServerId(n) == "s" \o ToString(n)

TempIds == { TempId(ms) : ms \in 0..MaxClock }

IsTempId(id) == id \in TempIds

\* ids a caller may pass to updateTask / deleteTask
IdPool == { ServerId(n) : n \in 1..(MaxOps + 1) } \cup TempIds

\* a || b on strings: the empty string and undefined are falsy
OrElse(a, b) == IF a = "" \/ a = Undef THEN b ELSE a

(* ---------------------------------------------------------------------- *)
(* Array helpers                                                           *)
(* ---------------------------------------------------------------------- *)
\* tasks.filter(t => t._id !== id)
WithoutId(s, id) == LET Keep(t) == t.id # id IN SelectSeq(s, Keep)

\* tasks.map(t => t._id === id ? replacement : t)
ReplaceId(s, id, replacement) ==
    [i \in 1..Len(s) |-> IF s[i].id = id THEN replacement ELSE s[i]]

\* Array.prototype.findIndex, 1-based; 0 where the source yields -1
FindIndex(s, id) ==
    IF \E i \in 1..Len(s) : s[i].id = id
    THEN CHOOSE i \in 1..Len(s) :
            s[i].id = id /\ \A j \in 1..(i - 1) : s[j].id # id
    ELSE 0

\* { ...task, ...updates }: every field present in updates overrides
Merge(task, updates) ==
    [id |-> task.id,
     title |-> IF updates.title = Undef THEN task.title ELSE updates.title,
     description |-> IF updates.description = Undef THEN task.description
                     ELSE updates.description,
     status |-> IF updates.status = Undef THEN task.status ELSE updates.status]

\* TaskService.mapTaskFromApi
MapTaskFromApi(apiTask) ==
    [id |-> apiTask.id,
     title |-> apiTask.title,
     description |-> OrElse(apiTask.description, ""),
     status |-> apiTask.status]

\* TaskService.handleError on a server-side failure: the message of the Error
\* it throws
HandleError(e) ==
    IF e.nested # Undef /\ e.nested # "" THEN e.nested
    ELSE IF e.message # Undef /\ e.message # "" THEN e.message
    ELSE "Error Code: " \o ToString(e.status) \o "\nMessage: " \o e.httpMessage

(* ---------------------------------------------------------------------- *)
(* State                                                                   *)
(* ---------------------------------------------------------------------- *)
VARIABLES
    tasks,        \* TaskStateService.tasksSubject.value
    loading,      \* TaskStateService.loadingSubject.value
    error,        \* TaskStateService.errorSubject.value (Null for null)
    initialized,  \* TaskStateService.initialized
    tasksCache,   \* TaskService.tasksCache$: the shareReplay(1) observable
    now,          \* Date.now()
    server,       \* the tasks the backend holds, in insertion order
    nextId,       \* number of the next id the backend assigns
    pending,      \* create/update/delete calls whose response has not arrived
    gets,         \* GET /tasks requests whose response has not arrived, with
                  \* the HTTP status of the answer (0 while there is none)
    nextUid,      \* number of the next create/update/delete call
    nextGet,      \* number of the next GET /tasks request
    last          \* the handler that ran last, and the collection it found

VARIABLES
    token,        \* localStorage['auth_token'] (Null when absent)
    storedUser,   \* localStorage['current_user'] (Null when absent)
    currentUser,  \* AuthService.currentUserSubject.value (Null for null)
    url,          \* the path of the activated route, as its segments
    returnUrl,    \* the returnUrl query parameter of the activated URL
    loginReq,     \* the POST /auth/login of LoginComponent.onSubmit: "idle",
                  \* "sent", answered "ok" or "err", or "failed" (error set)
    registerReq,  \* the POST /auth/register of RegisterComponent.onSubmit
    authEv,       \* the method of AuthService that changed or kept the
                  \* session last
    nav           \* the navigation that ended last, what it found, and the
                  \* message of the error the interceptor passed on with it

\* the fields of TaskStateService and TaskService, and their backend
taskVars == <<tasks, loading, error, initialized, tasksCache, now, server,
              nextId, pending, gets, nextUid, nextGet, last>>

\* the fields of AuthService, the router, LoginComponent and
\* RegisterComponent
authVars == <<token, storedUser, currentUser, url, returnUrl, loginReq,
              registerReq, authEv, nav>>

vars == <<taskVars, authVars>>

\* URLs, as sequences of path segments
RootUrl == <<>>
LoginUrl == <<"login">>
RegisterUrl == <<"register">>
TasksUrl == <<"tasks">>

\* no returnUrl query parameter
NoReturnUrl == <<"">>

\* tasksCache$ === null
NoCache == [uid |-> 0, st |-> "null", data |-> <<>>]

\* no call: the value of last.op for handlers that belong to no call
NoOp ==
    [uid |-> 0, kind |-> "", id |-> "", task |-> NoTask, updates |-> NoUpdates,
     currentTasks |-> <<>>, taskIndex |-> 0, st |-> "", respTask |-> NoTask,
     respErr |-> ""]

\* the task the backend holds when the application starts
InitialTask ==
    [id |-> ServerId(1), title |-> "A", description |-> "d", status |-> "todo"]

\* The state right after the constructor has run: it calls loadTasks(), which
\* finds loading false and no cache, so one GET /tasks is under way.  The
\* application starts at the home page with an empty localStorage, so
\* AuthService's constructor finds no token and no user.
InitTaskState ==
    /\ tasks = <<>>
    /\ loading = TRUE
    /\ error = Null
    /\ initialized = FALSE
    /\ tasksCache = [uid |-> 1, st |-> "pending", data |-> <<>>]
    /\ now = 0
    /\ server = <<InitialTask>>
    /\ nextId = 2
    /\ pending = {}
    /\ gets = { [uid |-> 1, st |-> "sent", status |-> 0, data |-> <<>>,
                  err |-> ""] }
    /\ nextUid = 1
    /\ nextGet = 2
    /\ last = [ev |-> "constructor", op |-> NoOp, before |-> <<>>]

Init ==
    /\ InitTaskState
    /\ token = Null
    /\ storedUser = Null
    /\ currentUser = Null
    /\ url = RootUrl
    /\ returnUrl = NoReturnUrl
    /\ loginReq = "idle"
    /\ registerReq = "idle"
    /\ authEv = "constructor"
    /\ nav = [ev |-> "start", attempted |-> RootUrl, authenticated |-> FALSE,
              returnUrl |-> NoReturnUrl, message |-> ""]

\* what a handler leaves in `last`
Event(ev, op) == [ev |-> ev, op |-> op, before |-> tasks]

\* a create/update/delete call as it leaves the state service
NewOp(kind, id, task, updates, taskIndex) ==
    [uid |-> nextUid, kind |-> kind, id |-> id, task |-> task,
     updates |-> updates, currentTasks |-> tasks, taskIndex |-> taskIndex,
     st |-> "sent", respTask |-> NoTask, respErr |-> ""]

(* ---------------------------------------------------------------------- *)
(* Calls into TaskStateService                                             *)
(* ---------------------------------------------------------------------- *)
\* Date.now() advances
Tick ==
    /\ now < MaxClock
    /\ now' = now + 1
    /\ UNCHANGED <<tasks, loading, error, initialized, tasksCache, server,
                   nextId, pending, gets, nextUid, nextGet, last>>
    /\ UNCHANGED authVars

\* loadTasks without its re-entrancy guard
LoadTasksFromUnguarded(init0, ev) ==
    IF tasksCache.st = "value"
    THEN /\ tasks' = tasksCache.data
         /\ initialized' = TRUE
         /\ loading' = FALSE
         /\ error' = Null
         /\ last' = Event(ev \o "Replayed", NoOp)
         /\ UNCHANGED <<tasksCache, gets, nextGet>>
    ELSE IF tasksCache.st = "pending"
    THEN /\ loading' = TRUE
         /\ error' = Null
         /\ initialized' = init0
         /\ last' = Event(ev \o "Joined", NoOp)
         /\ UNCHANGED <<tasks, tasksCache, gets, nextGet>>
    ELSE /\ nextGet <= MaxGets
         /\ loading' = TRUE
         /\ error' = Null
         /\ initialized' = init0
         /\ tasksCache' = [uid |-> nextGet, st |-> "pending", data |-> <<>>]
         /\ gets' = gets \cup
                {[uid |-> nextGet, st |-> "sent", status |-> 0,
                  data |-> <<>>, err |-> ""]}
         /\ nextGet' = nextGet + 1
         /\ last' = Event(ev \o "Sent", NoOp)
         /\ UNCHANGED tasks

\* The body of loadTasks(), with TaskService.getAllTasks() inlined.
\* init0 is the value of `initialized` on entry, ev names the caller.
\*  - loading: return at once;
\*  - the cached observable holds a value: shareReplay replays it during
\*    subscribe(), so the tap runs inside this call;
\*  - the cached observable is still waiting for its GET: subscribe to it;
\*  - no cached observable, or one that ended in an error (shareReplay
\*    subscribes to its source again): a new GET leaves.
LoadTasksFrom(init0, ev) ==
    IF loading
    THEN /\ initialized' = init0
         /\ last' = Event(ev \o "Skipped", NoOp)
         /\ UNCHANGED <<tasks, loading, error, tasksCache, gets, nextGet>>
    ELSE IF tasksCache.st = "value"
    THEN /\ tasks' = tasksCache.data
         /\ initialized' = TRUE
         /\ loading' = FALSE
         /\ error' = Null
         /\ last' = Event(ev \o "Replayed", NoOp)
         /\ UNCHANGED <<tasksCache, gets, nextGet>>
    ELSE IF tasksCache.st = "pending"
    THEN /\ loading' = TRUE
         /\ error' = Null
         /\ initialized' = init0
         /\ last' = Event(ev \o "Joined", NoOp)
         /\ UNCHANGED <<tasks, tasksCache, gets, nextGet>>
    ELSE /\ nextGet <= MaxGets
         /\ loading' = TRUE
         /\ error' = Null
         /\ initialized' = init0
         /\ tasksCache' = [uid |-> nextGet, st |-> "pending", data |-> <<>>]
         /\ gets' = gets \cup
                {[uid |-> nextGet, st |-> "sent", status |-> 0,
                  data |-> <<>>, err |-> ""]}
         /\ nextGet' = nextGet + 1
         /\ last' = Event(ev \o "Sent", NoOp)
         /\ UNCHANGED tasks

\* loadTasks()
LoadTasks ==
    /\ LoadTasksFrom(initialized, "load")
    /\ UNCHANGED <<now, server, nextId, pending, nextUid>>

\* refreshTasks()
RefreshTasks ==
    /\ LoadTasksFrom(FALSE, "refresh")
    /\ UNCHANGED <<now, server, nextId, pending, nextUid>>

\* a createTask that leaves lastError as it finds it
CreateTaskKeepsError(draft) ==
    LET tempTask == [id |-> TempId(now), title |-> draft.title,
                     description |-> draft.description,
                     status |-> draft.status]
    IN  /\ tasks' = Append(tasks, tempTask)
        /\ loading' = TRUE
        /\ pending' = pending \cup
               {NewOp("create", tempTask.id, tempTask, NoUpdates, 0)}
        /\ nextUid' = nextUid + 1
        /\ last' = Event("create",
                         NewOp("create", tempTask.id, tempTask, NoUpdates, 0))
        /\ UNCHANGED <<error, initialized, tasksCache, now, server, nextId,
                       gets, nextGet>>

\* createTask(draft), subscribed to by the caller
CreateTask(draft) ==
    LET tempTask == [id |-> TempId(now), title |-> draft.title,
                     description |-> draft.description,
                     status |-> draft.status]
    IN  /\ tasks' = Append(tasks, tempTask)
        /\ loading' = TRUE
        /\ error' = Null
        /\ pending' = pending \cup
               {NewOp("create", tempTask.id, tempTask, NoUpdates, 0)}
        /\ nextUid' = nextUid + 1
        /\ last' = Event("create",
                         NewOp("create", tempTask.id, tempTask, NoUpdates, 0))
        /\ UNCHANGED <<initialized, tasksCache, now, server, nextId, gets,
                       nextGet>>

\* an updateTask that clears lastError before it looks the task up
UpdateTaskClearsErrorFirst(id, updates) ==
    LET taskIndex == FindIndex(tasks, id)
    IN  IF taskIndex = 0
        THEN /\ error' = Null
             /\ last' = Event("updateNotFound", NoOp)
             /\ UNCHANGED <<tasks, loading, initialized, tasksCache,
                            now, server, nextId, pending, gets, nextUid,
                            nextGet>>
        ELSE LET originalTask == tasks[taskIndex]
                 optimisticTask == Merge(originalTask, updates)
                 op == NewOp("update", id, originalTask, updates, taskIndex)
             IN  /\ tasks' = [tasks EXCEPT ![taskIndex] = optimisticTask]
                 /\ loading' = TRUE
                 /\ error' = Null
                 /\ pending' = pending \cup {op}
                 /\ nextUid' = nextUid + 1
                 /\ last' = Event("update", op)
                 /\ UNCHANGED <<initialized, tasksCache, now, server, nextId,
                                gets, nextGet>>

\* updateTask(id, updates), subscribed to by the caller
UpdateTask(id, updates) ==
    LET taskIndex == FindIndex(tasks, id)
    IN  IF taskIndex = 0
        THEN /\ last' = Event("updateNotFound", NoOp)
             /\ UNCHANGED <<tasks, loading, error, initialized, tasksCache,
                            now, server, nextId, pending, gets, nextUid,
                            nextGet>>
        ELSE LET originalTask == tasks[taskIndex]
                 optimisticTask == Merge(originalTask, updates)
                 op == NewOp("update", id, originalTask, updates, taskIndex)
             IN  /\ tasks' = [tasks EXCEPT ![taskIndex] = optimisticTask]
                 /\ loading' = TRUE
                 /\ error' = Null
                 /\ pending' = pending \cup {op}
                 /\ nextUid' = nextUid + 1
                 /\ last' = Event("update", op)
                 /\ UNCHANGED <<initialized, tasksCache, now, server, nextId,
                                gets, nextGet>>

\* deleteTask(id) as it would read if it removed the task only once the
\* backend has confirmed
DeleteTaskOnConfirm(id) ==
    LET taskIndex == FindIndex(tasks, id)
    IN  IF taskIndex = 0
        THEN /\ last' = Event("deleteNotFound", NoOp)
             /\ UNCHANGED <<tasks, loading, error, initialized, tasksCache,
                            now, server, nextId, pending, gets, nextUid,
                            nextGet>>
        ELSE LET op == NewOp("delete", id, tasks[taskIndex], NoUpdates,
                             taskIndex)
             IN  /\ loading' = TRUE
                 /\ error' = Null
                 /\ pending' = pending \cup {op}
                 /\ nextUid' = nextUid + 1
                 /\ last' = Event("delete", op)
                 /\ UNCHANGED <<tasks, initialized, tasksCache, now, server,
                                nextId, gets, nextGet>>

\* deleteTask(id), subscribed to by the caller
DeleteTask(id) ==
    LET taskIndex == FindIndex(tasks, id)
    IN  IF taskIndex = 0
        THEN /\ last' = Event("deleteNotFound", NoOp)
             /\ UNCHANGED <<tasks, loading, error, initialized, tasksCache,
                            now, server, nextId, pending, gets, nextUid,
                            nextGet>>
        ELSE LET taskToDelete == tasks[taskIndex]
                 op == NewOp("delete", id, taskToDelete, NoUpdates, taskIndex)
             IN  /\ tasks' = WithoutId(tasks, id)
                 /\ loading' = TRUE
                 /\ error' = Null
                 /\ pending' = pending \cup {op}
                 /\ nextUid' = nextUid + 1
                 /\ last' = Event("delete", op)
                 /\ UNCHANGED <<initialized, tasksCache, now, server, nextId,
                                gets, nextGet>>

\* clearError()
ClearError ==
    /\ error' = Null
    /\ last' = Event("clearError", NoOp)
    /\ UNCHANGED <<tasks, loading, initialized, tasksCache, now, server,
                   nextId, pending, gets, nextUid, nextGet>>

(* ---------------------------------------------------------------------- *)
(* The backend (Remote Resource Client contract, spec section 6)           *)
(* ---------------------------------------------------------------------- *)
\* the state-service variables, which the backend never touches
client == <<tasks, loading, error, initialized, tasksCache, now, nextUid,
            nextGet, last>>

\* the call o, answered
Answered(o, st, respTask, respErr) ==
    [o EXCEPT !.st = st, !.respTask = respTask, !.respErr = respErr]

\* POST /tasks: the payload { title, description: task.description || '',
\* status } becomes a new task with a fresh id
ServerCreate(o) ==
    LET created == [id |-> ServerId(nextId), title |-> o.task.title,
                    description |-> OrElse(o.task.description, ""),
                    status |-> o.task.status]
    IN  /\ o.kind = "create" /\ o.st = "sent"
        /\ server' = Append(server, created)
        /\ nextId' = nextId + 1
        /\ pending' = (pending \ {o}) \cup {Answered(o, "ok", created, "")}
        /\ UNCHANGED <<client, gets>>

\* PUT /tasks/:id: the fields present in the payload are merged into the
\* stored task; an id the backend does not hold is answered with an error
ServerUpdate(o) ==
    LET i == FindIndex(server, o.id)
    IN  /\ o.kind = "update" /\ o.st = "sent"
        /\ IF i = 0
           THEN /\ pending' = (pending \ {o}) \cup
                       {Answered(o, "err", NoTask, HandleError(NotFoundResponse))}
                /\ UNCHANGED server
           ELSE /\ server' = [server EXCEPT ![i] = Merge(server[i], o.updates)]
                /\ pending' = (pending \ {o}) \cup
                       {Answered(o, "ok", Merge(server[i], o.updates), "")}
        /\ UNCHANGED <<client, nextId, gets>>

\* DELETE /tasks/:id
ServerDelete(o) ==
    LET i == FindIndex(server, o.id)
    IN  /\ o.kind = "delete" /\ o.st = "sent"
        /\ IF i = 0
           THEN /\ pending' = (pending \ {o}) \cup
                       {Answered(o, "err", NoTask, HandleError(NotFoundResponse))}
                /\ UNCHANGED server
           ELSE /\ server' = WithoutId(server, o.id)
                /\ pending' = (pending \ {o}) \cup
                       {Answered(o, "ok", NoTask, "")}
        /\ UNCHANGED <<client, nextId, gets>>

\* a create/update/delete request fails and changes nothing on the backend
ServerReject(o, e) ==
    /\ o.st = "sent"
    /\ pending' = (pending \ {o}) \cup
           {Answered(o, "err", NoTask, HandleError(e))}
    /\ UNCHANGED <<client, server, nextId, gets>>

\* GET /tasks: the list as the backend holds it now
ServerList(g) ==
    /\ g.st = "sent"
    /\ gets' = (gets \ {g}) \cup
           {[g EXCEPT !.st = "ok", !.status = 200, !.data = server]}
    /\ UNCHANGED <<client, server, nextId, pending>>

\* GET /tasks fails
ServerListReject(g, e) ==
    /\ g.st = "sent"
    /\ gets' = (gets \ {g}) \cup
           {[g EXCEPT !.st = "err", !.status = e.status,
                      !.err = HandleError(e)]}
    /\ UNCHANGED <<client, server, nextId, pending>>

(* ---------------------------------------------------------------------- *)
(* Responses arriving: the tap / catchError handlers                       *)
(* ---------------------------------------------------------------------- *)
\* response.data.map(task => this.mapTaskFromApi(task))
MapTasksFromApi(data) == [i \in 1..Len(data) |-> MapTaskFromApi(data[i])]

\* the cached observable after its GET g has ended with state st
CacheAfter(g, st, data) ==
    IF tasksCache.uid = g.uid
    THEN [uid |-> g.uid, st |-> st, data |-> data]
    ELSE tasksCache

\* loadTasks: tap
LoadSuccess(g) ==
    /\ g.st = "ok"
    /\ tasks' = MapTasksFromApi(g.data)
    /\ initialized' = TRUE
    /\ loading' = FALSE
    /\ tasksCache' = CacheAfter(g, "value", MapTasksFromApi(g.data))
    /\ gets' = gets \ {g}
    /\ last' = Event("loadSuccess", NoOp)
    /\ UNCHANGED <<error, now, server, nextId, pending, nextUid, nextGet>>

\* a loadTasks catchError that also empties the collection
LoadFailClearsCollection(g) ==
    /\ g.st = "err"
    /\ tasks' = <<>>
    /\ error' = OrElse(g.err, "Failed to load tasks")
    /\ loading' = FALSE
    /\ tasksCache' = CacheAfter(g, "error", <<>>)
    /\ gets' = gets \ {g}
    /\ last' = Event("loadFail", NoOp)
    /\ UNCHANGED <<initialized, now, server, nextId, pending, nextUid, nextGet>>

\* loadTasks: catchError
LoadFail(g) ==
    /\ g.st = "err"
    /\ error' = OrElse(g.err, "Failed to load tasks")
    /\ loading' = FALSE
    /\ tasksCache' = CacheAfter(g, "error", <<>>)
    /\ gets' = gets \ {g}
    /\ last' = Event("loadFail", NoOp)
    /\ UNCHANGED <<tasks, initialized, now, server, nextId, pending, nextUid,
                   nextGet>>

\* createTask: TaskService's tap (clearCache), then the state service's tap
CreateSuccess(o) ==
    /\ o.kind = "create" /\ o.st = "ok"
    /\ tasksCache' = NoCache
    /\ tasks' = ReplaceId(tasks, o.task.id, MapTaskFromApi(o.respTask))
    /\ loading' = FALSE
    /\ pending' = pending \ {o}
    /\ last' = Event("createSuccess", o)
    /\ UNCHANGED <<error, initialized, now, server, nextId, gets, nextUid,
                   nextGet>>

\* a createTask catchError that reports the failure and leaves the
\* provisional entry in the collection
CreateFailNoRollback(o) ==
    /\ o.kind = "create" /\ o.st = "err"
    /\ error' = OrElse(o.respErr, "Failed to create task")
    /\ loading' = FALSE
    /\ pending' = pending \ {o}
    /\ last' = Event("createFail", o)
    /\ UNCHANGED <<tasks, initialized, tasksCache, now, server, nextId, gets,
                   nextUid, nextGet>>

\* createTask: catchError
CreateFail(o) ==
    /\ o.kind = "create" /\ o.st = "err"
    /\ tasks' = WithoutId(tasks, o.task.id)
    /\ error' = OrElse(o.respErr, "Failed to create task")
    /\ loading' = FALSE
    /\ pending' = pending \ {o}
    /\ last' = Event("createFail", o)
    /\ UNCHANGED <<initialized, tasksCache, now, server, nextId, gets,
                   nextUid, nextGet>>

\* an updateTask success that leaves TaskService's cache in place
UpdateSuccessKeepsCache(o) ==
    /\ o.kind = "update" /\ o.st = "ok"
    /\ tasks' = ReplaceId(tasks, o.id, MapTaskFromApi(o.respTask))
    /\ loading' = FALSE
    /\ pending' = pending \ {o}
    /\ last' = Event("updateSuccess", o)
    /\ UNCHANGED <<error, initialized, tasksCache, now, server, nextId, gets,
                   nextUid, nextGet>>

\* updateTask: TaskService's tap (clearCache), then the state service's tap
UpdateSuccess(o) ==
    /\ o.kind = "update" /\ o.st = "ok"
    /\ tasksCache' = NoCache
    /\ tasks' = ReplaceId(tasks, o.id, MapTaskFromApi(o.respTask))
    /\ loading' = FALSE
    /\ pending' = pending \ {o}
    /\ last' = Event("updateSuccess", o)
    /\ UNCHANGED <<error, initialized, now, server, nextId, gets, nextUid,
                   nextGet>>

\* updateTask: catchError as it would read if it put the original task back
\* into the collection it finds instead of the captured array
UpdateFailIntoCurrent(o) ==
    /\ o.kind = "update" /\ o.st = "err"
    /\ tasks' = ReplaceId(tasks, o.id, o.task)
    /\ error' = OrElse(o.respErr, "Failed to update task")
    /\ loading' = FALSE
    /\ pending' = pending \ {o}
    /\ last' = Event("updateFail", o)
    /\ UNCHANGED <<initialized, tasksCache, now, server, nextId, gets,
                   nextUid, nextGet>>

\* updateTask: catchError. The rollback starts from the array captured when
\* updateTask was called.
UpdateFail(o) ==
    /\ o.kind = "update" /\ o.st = "err"
    /\ tasks' = [o.currentTasks EXCEPT ![o.taskIndex] = o.task]
    /\ error' = OrElse(o.respErr, "Failed to update task")
    /\ loading' = FALSE
    /\ pending' = pending \ {o}
    /\ last' = Event("updateFail", o)
    /\ UNCHANGED <<initialized, tasksCache, now, server, nextId, gets,
                   nextUid, nextGet>>

\* deleteTask: TaskService's tap (clearCache), then the state service's tap
DeleteSuccess(o) ==
    /\ o.kind = "delete" /\ o.st = "ok"
    /\ tasksCache' = NoCache
    /\ loading' = FALSE
    /\ pending' = pending \ {o}
    /\ last' = Event("deleteSuccess", o)
    /\ UNCHANGED <<tasks, error, initialized, now, server, nextId, gets,
                   nextUid, nextGet>>

\* deleteTask: catchError. The rollback publishes the array captured when
\* deleteTask was called.
DeleteFail(o) ==
    /\ o.kind = "delete" /\ o.st = "err"
    /\ tasks' = o.currentTasks
    /\ error' = OrElse(o.respErr, "Failed to delete task")
    /\ loading' = FALSE
    /\ pending' = pending \ {o}
    /\ last' = Event("deleteFail", o)
    /\ UNCHANGED <<initialized, tasksCache, now, server, nextId, gets,
                   nextUid, nextGet>>

(* ---------------------------------------------------------------------- *)
(* Specification                                                           *)
(* ---------------------------------------------------------------------- *)
\* the ids a caller passes: every id of the collection, and one that is not
\* in it
CallIds ==
    LET present == { tasks[i].id : i \in 1..Len(tasks) }
    IN  present \cup { CHOOSE id \in IdPool : id \notin present }

Calls ==
    \/ LoadTasks /\ UNCHANGED authVars
    \/ RefreshTasks /\ UNCHANGED authVars
    \/ ClearError /\ UNCHANGED authVars
    \/ nextUid <= MaxOps /\ \E draft \in Drafts : CreateTask(draft)
           /\ UNCHANGED authVars
    \/ nextUid <= MaxOps /\
           \E id \in CallIds, updates \in Patches : UpdateTask(id, updates)
           /\ UNCHANGED authVars
    \/ nextUid <= MaxOps /\ \E id \in CallIds : DeleteTask(id)
           /\ UNCHANGED authVars

Backend ==
    \/ \E o \in pending : ServerCreate(o) /\ UNCHANGED authVars
    \/ \E o \in pending : ServerUpdate(o) /\ UNCHANGED authVars
    \/ \E o \in pending : ServerDelete(o) /\ UNCHANGED authVars
    \/ \E o \in pending, e \in ErrorResponses : ServerReject(o, e)
           /\ UNCHANGED authVars
    \/ \E g \in gets : ServerList(g) /\ UNCHANGED authVars
    \/ \E g \in gets, e \in ErrorResponses : ServerListReject(g, e)
           /\ UNCHANGED authVars

Responses ==
    \/ \E g \in gets : LoadSuccess(g) /\ UNCHANGED authVars
    \/ \E g \in gets : LoadFail(g) /\ UNCHANGED authVars
    \/ \E o \in pending : CreateSuccess(o) /\ UNCHANGED authVars
    \/ \E o \in pending : CreateFail(o) /\ UNCHANGED authVars
    \/ \E o \in pending : UpdateSuccess(o) /\ UNCHANGED authVars
    \/ \E o \in pending : UpdateFail(o) /\ UNCHANGED authVars
    \/ \E o \in pending : DeleteSuccess(o) /\ UNCHANGED authVars
    \/ \E o \in pending : DeleteFail(o) /\ UNCHANGED authVars

Next == Tick \/ Calls \/ Backend \/ Responses

Spec == Init /\ [][Next]_vars

(* ---------------------------------------------------------------------- *)
(* Three updates of one task, one field each (spec section 8, property 5)  *)
(* ---------------------------------------------------------------------- *)
\* the updates, in the order in which they are invoked
UpdateSequence ==
    << [title |-> "T2", description |-> Undef, status |-> Undef],
       [title |-> Undef, description |-> "d2", status |-> Undef],
       [title |-> Undef, description |-> Undef, status |-> "done"] >>

\* the next update of the sequence is invoked on the loaded task
SequenceCall ==
    /\ nextUid <= Len(UpdateSequence)
    /\ FindIndex(tasks, InitialTask.id) > 0
    /\ UpdateTask(InitialTask.id, UpdateSequence[nextUid])

\* o is the earliest call the backend has not handled yet
EarliestSent(o) ==
    /\ o.st = "sent"
    /\ \A p \in pending : p.st = "sent" => o.uid <= p.uid

\* The initial load completes (at any moment), the three updates are invoked
\* one after the other, the backend handles the requests in the order of
\* their invocation and every request succeeds; the responses arrive in any
\* order.
NextOrder ==
    \/ Tick
    \/ \E g \in gets : ServerList(g) /\ UNCHANGED authVars
    \/ \E g \in gets : LoadSuccess(g) /\ UNCHANGED authVars
    \/ SequenceCall /\ UNCHANGED authVars
    \/ \E o \in pending : EarliestSent(o) /\ ServerUpdate(o)
           /\ UNCHANGED authVars
    \/ \E o \in pending : UpdateSuccess(o) /\ UNCHANGED authVars

SpecOrder == Init /\ [][NextOrder]_vars

(* ---------------------------------------------------------------------- *)
(* Properties                                                              *)
(* ---------------------------------------------------------------------- *)
\* no two entries of s share an id
IdsUnique(s) == \A i, j \in 1..Len(s) : i # j => s[i].id # s[j].id

\* the collection a call publishes before its request leaves, computed from
\* the collection `before` it found
Optimistic(op, before) ==
    IF op.kind = "create" THEN Append(before, op.task)
    ELSE IF op.kind = "update"
    THEN [before EXCEPT ![FindIndex(before, op.id)] =
              Merge(before[FindIndex(before, op.id)], op.updates)]
    ELSE WithoutId(before, op.id)

\* the last handler was the failure path of a create, update or delete
Failed == last.ev \in {"createFail", "updateFail", "deleteFail"}

C2_IdsUnique == IdsUnique(tasks)

\* C3: a provisional id is in the collection only while the create that
\* introduced it is in flight; once the create has settled, the id is gone
\* for good.
C3_TempIdOnlyWhileCreatePending ==
    \A i \in 1..Len(tasks) :
        IsTempId(tasks[i].id) =>
            \E o \in pending : o.kind = "create" /\ o.id = tasks[i].id

\* C4: right after create, update or delete (with an id of the collection)
\* has returned, and until another handler runs, the published collection is
\* the optimistic snapshot: the provisional entry appended, the merged entry
\* at the same position, or the entry removed.
C4_OptimisticVisible ==
    last.ev \in {"create", "update", "delete"} =>
        /\ tasks = Optimistic(last.op, last.before)
        /\ last.ev = "create" =>
               /\ Len(tasks) = Len(last.before) + 1
               /\ IsTempId(tasks[Len(tasks)].id)
               /\ \E d \in Drafts :
                      /\ tasks[Len(tasks)].title = d.title
                      /\ tasks[Len(tasks)].status = d.status
        /\ last.ev = "update" =>
               LET i == FindIndex(last.before, last.op.id)
               IN  /\ i > 0
                   /\ Len(tasks) = Len(last.before)
                   /\ tasks[i] = Merge(last.before[i], last.op.updates)
                   /\ \A j \in 1..Len(tasks) : j # i => tasks[j] = last.before[j]
                   /\ Merge(last.before[i], last.op.updates) # last.before[i]
                          => tasks # last.before
        /\ last.ev = "delete" =>
               /\ \A j \in 1..Len(tasks) : tasks[j].id # last.op.id
               /\ Len(tasks) < Len(last.before)

\* C4 witness: an update has returned, its request has not been handled yet,
\* and the collection differs from the one the update found.
C4_Witness ==
    /\ last.ev = "update"
    /\ \E o \in pending : o.uid = last.op.uid /\ o.st = "sent"
    /\ tasks # last.before
    /\ Len(tasks) > 1

\* C5: at most one GET /tasks is outstanding at any moment.
C5_AtMostOneFetch == Cardinality(gets) <= 1

\* the task of the update sequence with all three updates merged
AllMerged ==
    Merge(Merge(Merge(InitialTask, UpdateSequence[1]), UpdateSequence[2]),
          UpdateSequence[3])

\* C6: once the three updates of the sequence have been invoked and all
\* three requests have succeeded, the task of the collection carries all
\* three changes, in whatever order the responses arrived.
C6_ThreeUpdatesMerged ==
    (nextUid > Len(UpdateSequence) /\ pending = {} /\ gets = {}) =>
        tasks = <<AllMerged>>

\* C7: loading is true exactly while a load or a create/update/delete
\* request is outstanding.
C7_LoadingIffOutstanding == loading <=> (pending # {} \/ gets # {})

\* C8: right after a create has succeeded, the entry returned by the backend
\* stands where the provisional entry stood, and is in the collection exactly
\* once.  Stated for the successes that find a collection in which no two
\* entries share an id.
C8_CreateSuccessReplacesOnce ==
    (last.ev = "createSuccess" /\ IdsUnique(last.before)) =>
        LET newTask == MapTaskFromApi(last.op.respTask)
            i == FindIndex(last.before, last.op.id)
        IN  /\ i > 0
            /\ tasks = [last.before EXCEPT ![i] = newTask]
            /\ Cardinality({ j \in 1..Len(tasks) : tasks[j].id = newTask.id }) = 1

\* C9: after an update has failed, the entry it changed is back at its
\* position and every other entry is as the failure found it.
C9_UpdateFailTouchesOnlyItsEntry ==
    last.ev = "updateFail" =>
        /\ WithoutId(tasks, last.op.id) = WithoutId(last.before, last.op.id)
        /\ \A i \in 1..Len(last.before) :
               last.before[i].id = last.op.id =>
                   i <= Len(tasks) /\ tasks[i] = last.op.task

\* C10: after a delete has failed, the removed entry is back, lastError is
\* not empty, and every other entry is as the failure found it.
C10_DeleteFailTouchesOnlyItsEntry ==
    last.ev = "deleteFail" =>
        /\ error # Null /\ error # ""
        /\ \E i \in 1..Len(tasks) : tasks[i] = last.op.task
        /\ WithoutId(tasks, last.op.id) = WithoutId(last.before, last.op.id)

\* C11: right after a load has failed, the collection is exactly as the
\* failure found it, lastError is not empty and isLoading is false.
C11_LoadFailKeepsCollection ==
    last.ev = "loadFail" =>
        /\ tasks = last.before
        /\ error # Null /\ error # ""
        /\ loading = FALSE

\* a load has failed while the collection held an entry
C11_Witness == last.ev = "loadFail" /\ tasks # <<>>

\* C12: an update or delete called with an id that is not in the collection
\* ends as not-found and changes nothing: no request leaves, and the
\* collection, isLoading and lastError stay as they were; a request leaves
\* only for an id that is in the collection.
NotFoundEvents == {"updateNotFound", "deleteNotFound"}

C12_NotFoundChangesNothing ==
    [][/\ (last' # last /\ last'.ev \in NotFoundEvents) =>
              /\ last'.before = tasks
              /\ UNCHANGED <<tasks, loading, error, pending, gets, tasksCache,
                             nextUid, nextGet, server>>
       /\ (last' # last /\ last'.ev \in {"update", "delete"}) =>
              /\ FindIndex(tasks, last'.op.id) > 0
              /\ last'.op \in pending' \ pending]_vars

\* a call has ended as not-found while lastError was set and the collection
\* held an entry
C12_Witness == last.ev \in NotFoundEvents /\ error # Null /\ tasks # <<>>

\* C13: completions are handled in invocation order: when the completion of
\* a mutation is applied, no mutation invoked before it is still waiting
\* for its own completion.  Stated for the completions that find a
\* collection in which no two entries share an id.
Completions ==
    {"createSuccess", "updateSuccess", "deleteSuccess",
     "createFail", "updateFail", "deleteFail"}

C13_CompletionsInInvocationOrder ==
    (last.ev \in Completions /\ IdsUnique(last.before)) =>
        \A p \in pending : p.uid > last.op.uid

(* ---------------------------------------------------------------------- *)
(* An update and a delete of one task that overlap                         *)
(* ---------------------------------------------------------------------- *)
\* updateTask is invoked on the loaded task
RaceUpdate ==
    /\ nextUid = 1
    /\ FindIndex(tasks, InitialTask.id) > 0
    /\ \E updates \in Patches : UpdateTask(InitialTask.id, updates)

\* deleteTask is invoked on the same task while the update is in flight
RaceDelete ==
    /\ nextUid = 2
    /\ \E o \in pending : o.kind = "update"
    /\ DeleteTask(InitialTask.id)

\* The initial load completes, then updateTask and deleteTask are invoked on
\* the loaded task, the delete while the update is in flight.  The backend
\* handles the two requests in any order, each succeeds or fails, and the
\* responses arrive in any order.
NextRace ==
    \/ \E g \in gets : ServerList(g) /\ UNCHANGED authVars
    \/ \E g \in gets : LoadSuccess(g) /\ UNCHANGED authVars
    \/ RaceUpdate /\ UNCHANGED authVars
    \/ RaceDelete /\ UNCHANGED authVars
    \/ \E o \in pending : ServerUpdate(o) /\ UNCHANGED authVars
    \/ \E o \in pending : ServerDelete(o) /\ UNCHANGED authVars
    \/ \E o \in pending, e \in ErrorResponses : ServerReject(o, e)
           /\ UNCHANGED authVars
    \/ \E o \in pending : UpdateSuccess(o) /\ UNCHANGED authVars
    \/ \E o \in pending : UpdateFail(o) /\ UNCHANGED authVars
    \/ \E o \in pending : DeleteSuccess(o) /\ UNCHANGED authVars
    \/ \E o \in pending : DeleteFail(o) /\ UNCHANGED authVars

SpecRace == Init /\ [][NextRace]_vars

\* both calls have been invoked and both have settled
RaceSettled == nextUid = 3 /\ pending = {} /\ gets = {}

\* What the two calls leave when the update runs to its end before the
\* delete starts, with the outcomes the backend gave them: nothing when the
\* delete succeeded; otherwise the task, with the update's fields merged
\* when the update succeeded and as loaded when it failed.  A request that
\* fails changes nothing on the backend and one that succeeds changes the
\* collection the same way it changed the backend, so this is the list the
\* backend holds.
RaceSequential == MapTasksFromApi(server)

\* C14: when an update and a delete of the same task overlap, the
\* collection after both have settled is the one that running the two one
\* after the other in invocation order gives, whatever the outcomes and the
\* order of the completions.
C14_RaceEqualsSequential == RaceSettled => tasks = RaceSequential

\* the rollback of the failed call last.op is in the collection
RollbackPublished ==
    CASE last.ev = "createFail" ->
             \A i \in 1..Len(tasks) : tasks[i].id # last.op.id
      [] last.ev = "updateFail" ->
             /\ last.op.taskIndex <= Len(tasks)
             /\ tasks[last.op.taskIndex] = last.op.task
      [] last.ev = "deleteFail" ->
             \E i \in 1..Len(tasks) : tasks[i] = last.op.task
      [] OTHER -> TRUE

\* C15: when the caller of a failed create, update or delete receives the
\* error, the rollback is already in the collection, isLoading is false, and
\* lastError is not empty and carries the message of the error the caller
\* receives.
C15_FailureSignalledAfterRollback ==
    Failed =>
        /\ RollbackPublished
        /\ loading = FALSE
        /\ error # Null /\ error # ""
        /\ error = last.op.respErr

\* a create has failed and its handler has changed the collection
C15_Witness == last.ev = "createFail" /\ tasks # last.before

(* ---------------------------------------------------------------------- *)
(* Derived views of the collection                                         *)
(* ---------------------------------------------------------------------- *)
\* getTasksByStatus(status), applied to the snapshot ts
GetTasksByStatus(ts, status) ==
    LET HasStatus(task) == task.status = status
    IN  SelectSeq(ts, HasStatus)

\* getTaskCountByStatus(status), applied to the snapshot ts
GetTaskCountByStatus(ts, status) ==
    LET HasStatus(task) == task.status = status
    IN  Len(SelectSeq(ts, HasStatus))

\* getTotalTaskCount(), applied to the snapshot ts
GetTotalTaskCount(ts) == Len(ts)

\* a getTaskCounts() whose doing count filters on 'done'
GetTaskCountsDoneTwice(ts) ==
    LET IsTodo(t) == t.status = "todo"
        IsDone(t) == t.status = "done"
    IN  [todo |-> Len(SelectSeq(ts, IsTodo)),
         doing |-> Len(SelectSeq(ts, IsDone)),
         done |-> Len(SelectSeq(ts, IsDone))]

\* getTaskCounts(), applied to the snapshot ts
GetTaskCounts(ts) ==
    LET IsTodo(t) == t.status = "todo"
        IsDoing(t) == t.status = "doing"
        IsDone(t) == t.status = "done"
    IN  [todo |-> Len(SelectSeq(ts, IsTodo)),
         doing |-> Len(SelectSeq(ts, IsDoing)),
         done |-> Len(SelectSeq(ts, IsDone))]

\* the statuses the views are asked for: the three of the model and a
\* string that is none of them
ViewStatuses == Statuses \cup {"archived"}

\* the positions of ts that hold an entry of status s, and the k-th of a
\* set of positions
PositionsWithStatus(ts, s) == { i \in 1..Len(ts) : ts[i].status = s }
NthPosition(S, k) == CHOOSE i \in S : Cardinality({ j \in S : j <= i }) = k

\* C16: on every published snapshot, the count by status is the number of
\* entries of that status, the view by status is those entries in the order
\* of the collection, the total is the number of entries, and the three
\* counts of getTaskCounts add up to the total when every entry has one of
\* the three statuses.
C16_DerivedViews ==
    /\ \A s \in ViewStatuses :
          LET at == PositionsWithStatus(tasks, s)
              view == GetTasksByStatus(tasks, s)
          IN  /\ GetTaskCountByStatus(tasks, s) = Cardinality(at)
              /\ Len(view) = Cardinality(at)
              /\ \A k \in 1..Len(view) : view[k] = tasks[NthPosition(at, k)]
    /\ GetTotalTaskCount(tasks) = Cardinality(DOMAIN tasks)
    /\ (\A i \in 1..Len(tasks) : tasks[i].status \in Statuses) =>
          LET counts == GetTaskCounts(tasks)
          IN  counts.todo + counts.doing + counts.done
                  = GetTotalTaskCount(tasks)

\* the collection holds an entry that is done and, after it, one that is not
C16_Witness ==
    \E i, j \in 1..Len(tasks) :
        i < j /\ tasks[i].status = "done" /\ tasks[j].status = "todo"

(* ---------------------------------------------------------------------- *)
(* searchTasks                                                             *)
(* ---------------------------------------------------------------------- *)
\* the letters of the model's texts: <<lower case, upper case>>
CasePairs == {<<"a", "A">>, <<"b", "B">>, <<"d", "D">>, <<"t", "T">>}

\* the characters String.prototype.trim removes, as far as the inputs go
Whitespace == {" "}

\* the character at position i of str, and str from position i on
CharAt(str, i) == SubSeq(str, i, i)
From(str, i) == SubSeq(str, i, Len(str))

\* String.prototype.toLowerCase, one character
LowerChar(ch) ==
    IF \E p \in CasePairs : p[2] = ch
    THEN (CHOOSE p \in CasePairs : p[2] = ch)[1]
    ELSE ch

\* String.prototype.toLowerCase
RECURSIVE ToLowerCase(_)
ToLowerCase(str) ==
    IF str = "" THEN ""
    ELSE LowerChar(CharAt(str, 1)) \o ToLowerCase(From(str, 2))

\* String.prototype.trim
RECURSIVE TrimStart(_)
TrimStart(str) ==
    IF str # "" /\ CharAt(str, 1) \in Whitespace
    THEN TrimStart(From(str, 2))
    ELSE str

RECURSIVE TrimEnd(_)
TrimEnd(str) ==
    IF str # "" /\ CharAt(str, Len(str)) \in Whitespace
    THEN TrimEnd(SubSeq(str, 1, Len(str) - 1))
    ELSE str

Trim(str) == TrimEnd(TrimStart(str))

\* String.prototype.includes
Includes(text, term) ==
    \E i \in 1..(Len(text) - Len(term) + 1) :
        SubSeq(text, i, i + Len(term) - 1) = term

\* a searchTasks that compares with the term as it was typed
SearchTasksTermAsTyped(ts, searchTerm) ==
    IF Trim(searchTerm) = ""
    THEN ts
    ELSE LET Matches(task) ==
                 \/ Includes(ToLowerCase(task.title), searchTerm)
                 \/ Includes(ToLowerCase(task.description), searchTerm)
         IN  SelectSeq(ts, Matches)

\* searchTasks(searchTerm), applied to the snapshot ts
SearchTasks(ts, searchTerm) ==
    IF Trim(searchTerm) = ""
    THEN ts
    ELSE LET term == ToLowerCase(searchTerm)
             Matches(task) ==
                 \/ Includes(ToLowerCase(task.title), term)
                 \/ Includes(ToLowerCase(task.description), term)
         IN  SelectSeq(ts, Matches)

\* the terms searched for
SearchTerms == {"", " ", "  ", "a", "A", "t2", "D", "d2", "b ", " T", "x"}

\* two characters are the same letter, whatever their case
SameLetter(a, b) == a = b \/ <<a, b>> \in CasePairs \/ <<b, a>> \in CasePairs

\* text holds term, letter for letter whatever the case, from position i on
HoldsAt(text, term, i) ==
    /\ i + Len(term) - 1 <= Len(text)
    /\ \A k \in 1..Len(term) :
           SameLetter(CharAt(text, i + k - 1), CharAt(term, k))

ContainsIgnoringCase(text, term) ==
    \E i \in 1..(Len(text) + 1) : HoldsAt(text, term, i)

OnlyWhitespace(term) == \A i \in 1..Len(term) : CharAt(term, i) \in Whitespace

\* C17: on every published snapshot, searchTasks(term) is the whole
\* collection when term is empty or only whitespace, and otherwise the
\* entries, in the order of the collection, whose title or description
\* contains term as a substring ignoring case.
C17_SearchTasks ==
    \A term \in SearchTerms :
        LET found == SearchTasks(tasks, term)
            at == { i \in 1..Len(tasks) :
                      \/ ContainsIgnoringCase(tasks[i].title, term)
                      \/ ContainsIgnoringCase(tasks[i].description, term) }
        IN  IF OnlyWhitespace(term)
            THEN found = tasks
            ELSE /\ Len(found) = Cardinality(at)
                 /\ \A k \in 1..Len(found) :
                        found[k] = tasks[NthPosition(at, k)]

\* a term typed in upper case finds some entries of the collection and not
\* others
C17_Witness ==
    \E term \in SearchTerms :
        /\ term # ToLowerCase(term)
        /\ Len(SearchTasks(tasks, term)) > 0
        /\ Len(SearchTasks(tasks, term)) < Len(tasks)

(* ---------------------------------------------------------------------- *)
(* getTaskById                                                             *)
(* ---------------------------------------------------------------------- *)
\* a getTaskById that looks among the confirmed entries only
GetTaskByIdConfirmedOnly(ts, id) ==
    LET i == FindIndex(ts, id)
    IN  IF i = 0 \/ IsTempId(id) THEN NoTask ELSE ts[i]

\* getTaskById(id), applied to the snapshot ts: Array.prototype.find gives
\* the first entry with the id, or undefined (NoTask here)
GetTaskById(ts, id) ==
    LET i == FindIndex(ts, id)
    IN  IF i = 0 THEN NoTask ELSE ts[i]

\* C18: on every published snapshot and for every id, getTaskById(id) is an
\* entry of the collection with that id, provisional entries included, and
\* it is not-found exactly when the collection holds no entry with that id.
C18_GetTaskById ==
    \A id \in IdPool :
        LET found == GetTaskById(tasks, id)
            held == \E i \in 1..Len(tasks) : tasks[i].id = id
        IN  /\ held => found.id = id /\ \E i \in 1..Len(tasks) : tasks[i] = found
            /\ (found = NoTask) <=> ~held

\* the lookup of a provisional id finds the entry of a create in flight
\* while another id is not found
C18_Witness ==
    /\ \E o \in pending :
           o.kind = "create" /\ GetTaskById(tasks, o.id) = o.task
    /\ \E id \in IdPool : GetTaskById(tasks, id) = NoTask

(* ---------------------------------------------------------------------- *)
(* Routes, authGuard, AuthService and LoginComponent                       *)
(* ---------------------------------------------------------------------- *)
\* the route table with the detail route left without its guard
RoutesDetailUnguarded ==
    << [path |-> <<>>, canActivate |-> FALSE, redirectTo |-> FALSE],
       [path |-> <<"login">>, canActivate |-> FALSE, redirectTo |-> FALSE],
       [path |-> <<"register">>, canActivate |-> FALSE, redirectTo |-> FALSE],
       [path |-> <<"tasks">>, canActivate |-> TRUE, redirectTo |-> FALSE],
       [path |-> <<"tasks", "new">>, canActivate |-> TRUE,
        redirectTo |-> FALSE],
       [path |-> <<"tasks", ":id">>, canActivate |-> FALSE,
        redirectTo |-> FALSE],
       [path |-> <<"tasks", ":id", "edit">>, canActivate |-> TRUE,
        redirectTo |-> FALSE],
       [path |-> <<"**">>, canActivate |-> FALSE, redirectTo |-> TRUE] >>

\* the route table, in its order; canActivate: [authGuard] as a flag,
\* redirectTo: '' as a flag
Routes ==
    << [path |-> <<>>, canActivate |-> FALSE, redirectTo |-> FALSE],
       [path |-> <<"login">>, canActivate |-> FALSE, redirectTo |-> FALSE],
       [path |-> <<"register">>, canActivate |-> FALSE, redirectTo |-> FALSE],
       [path |-> <<"tasks">>, canActivate |-> TRUE, redirectTo |-> FALSE],
       [path |-> <<"tasks", "new">>, canActivate |-> TRUE,
        redirectTo |-> FALSE],
       [path |-> <<"tasks", ":id">>, canActivate |-> TRUE,
        redirectTo |-> FALSE],
       [path |-> <<"tasks", ":id", "edit">>, canActivate |-> TRUE,
        redirectTo |-> FALSE],
       [path |-> <<"**">>, canActivate |-> FALSE, redirectTo |-> TRUE] >>

\* the router's matching of a URL against a route path: '**' matches
\* everything, ':id' matches any segment
Matches(path, u) ==
    \/ path = <<"**">>
    \/ /\ Len(path) = Len(u)
       /\ \A i \in 1..Len(path) : path[i] = ":id" \/ path[i] = u[i]

\* the first route of the table that matches u
RouteOf(u) ==
    LET i == CHOOSE k \in 1..Len(Routes) :
                 /\ Matches(Routes[k].path, u)
                 /\ \A j \in 1..(k - 1) : ~Matches(Routes[j].path, u)
    IN  Routes[i]

\* the URLs a navigation is attempted to
Urls ==
    {RootUrl, LoginUrl, RegisterUrl, TasksUrl, <<"tasks", "new">>,
     <<"tasks", "s1">>, <<"tasks", "s1", "edit">>, <<"nowhere">>}

\* the user the backend returns, and the token it issues
User == "user"
Token == "jwt"

\* JSON.stringify of a user and JSON.parse of a stored string: Undef stands
\* for the SyntaxError of a string that is not JSON
JsonStringify(u) == "{" \o u \o "}"
JsonParse(str) ==
    IF Len(str) >= 2 /\ SubSeq(str, 1, 1) = "{"
                     /\ SubSeq(str, Len(str), Len(str)) = "}"
    THEN SubSeq(str, 2, Len(str) - 1)
    ELSE Undef

\* AuthService.getStoredUser for the stored string str (Null when absent)
GetStoredUser(str) ==
    IF str = Null THEN Null
    ELSE IF JsonParse(str) = Undef THEN Null
    ELSE JsonParse(str)

\* AuthService.getToken, getCurrentUser and isAuthenticated
GetToken == token
GetCurrentUser == currentUser
IsAuthenticated == GetToken # Null /\ GetCurrentUser # Null

\* authGuard
AuthGuard == IsAuthenticated

\* what a navigation leaves in `nav`
Navigated(ev, attempted) ==
    [ev |-> ev, attempted |-> attempted, authenticated |-> IsAuthenticated',
     returnUrl |-> returnUrl, message |-> ""]

\* router.navigate to u, with the authentication state of the end of the
\* step: a guarded route asks authGuard, which lets the navigation through
\* or cancels it and navigates to /login with returnUrl = u; LoginComponent
\* and RegisterComponent, once activated, navigate to /tasks when the user
\* is authenticated.
NavigateTo(u) ==
    LET route == RouteOf(u)
        target == IF route.redirectTo THEN RootUrl ELSE u
    IN  IF route.canActivate /\ ~AuthGuard'
        THEN /\ url' = LoginUrl
             /\ returnUrl' = u
             /\ nav' = Navigated("redirected", u)
        ELSE IF target \in {LoginUrl, RegisterUrl} /\ IsAuthenticated'
        THEN /\ url' = TasksUrl
             /\ returnUrl' = NoReturnUrl
             /\ nav' = Navigated("activated", TasksUrl)
        ELSE /\ url' = target
             /\ returnUrl' = NoReturnUrl
             /\ nav' = Navigated("activated", target)

\* the user follows a link or enters a URL
Navigate(u) ==
    /\ UNCHANGED <<token, storedUser, currentUser, loginReq, registerReq,
                   authEv>>
    /\ NavigateTo(u)

\* LoginComponent.onSubmit with a valid form: error is cleared and the POST
\* leaves
SubmitLogin ==
    /\ url = LoginUrl
    /\ loginReq \in {"idle", "failed"}
    /\ loginReq' = "sent"
    /\ UNCHANGED <<token, storedUser, currentUser, url, returnUrl, nav,
                   registerReq, authEv>>

\* the backend accepts or rejects the credentials
ServerLoginOk ==
    /\ loginReq = "sent"
    /\ loginReq' = "ok"
    /\ UNCHANGED <<token, storedUser, currentUser, url, returnUrl, nav,
                   registerReq, authEv>>

ServerLoginReject ==
    /\ loginReq = "sent"
    /\ loginReq' = "err"
    /\ UNCHANGED <<token, storedUser, currentUser, url, returnUrl, nav,
                   registerReq, authEv>>

\* AuthService.login's map (setAuthData), then LoginComponent's next
\* handler: router.navigate(['/tasks'])
LoginSuccess ==
    /\ loginReq = "ok"
    /\ token' = Token
    /\ storedUser' = JsonStringify(User)
    /\ currentUser' = User
    /\ loginReq' = "idle"
    /\ authEv' = "login"
    /\ UNCHANGED registerReq
    /\ url' = TasksUrl
    /\ returnUrl' = NoReturnUrl
    /\ nav' = Navigated("loginSuccess", TasksUrl)

\* LoginComponent's error handler: error is set
LoginFail ==
    /\ loginReq = "err"
    /\ loginReq' = "failed"
    /\ authEv' = "loginFailed"
    /\ UNCHANGED <<token, storedUser, currentUser, url, returnUrl, nav,
                   registerReq>>

\* a logout that leaves the stored user in localStorage
LogoutKeepsStoredUser ==
    /\ IsAuthenticated
    /\ token' = Null
    /\ currentUser' = Null
    /\ authEv' = "logout"
    /\ UNCHANGED <<storedUser, url, returnUrl, loginReq, registerReq, nav>>

\* NavigationComponent.logout: AuthService.logout(), no navigation
Logout ==
    /\ IsAuthenticated
    /\ token' = Null
    /\ storedUser' = Null
    /\ currentUser' = Null
    /\ authEv' = "logout"
    /\ UNCHANGED <<url, returnUrl, loginReq, registerReq, nav>>

NextAuth ==
    \/ \E u \in Urls : Navigate(u) /\ UNCHANGED taskVars
    \/ SubmitLogin /\ UNCHANGED taskVars
    \/ ServerLoginOk /\ UNCHANGED taskVars
    \/ ServerLoginReject /\ UNCHANGED taskVars
    \/ LoginSuccess /\ UNCHANGED taskVars
    \/ LoginFail /\ UNCHANGED taskVars
    \/ Logout /\ UNCHANGED taskVars

SpecAuth == Init /\ [][NextAuth]_vars

\* the URLs of the task routes
TaskUrls ==
    {TasksUrl, <<"tasks", "new">>, <<"tasks", "s1">>,
     <<"tasks", "s1", "edit">>}

\* C19: a navigation attempted to a task route while the user is not
\* authenticated is denied and ends at /login with returnUrl equal to the
\* attempted URL; while the user is authenticated it is allowed and ends at
\* the attempted URL with no redirect; and no task route is activated for a
\* user who is not authenticated.
C19_RouteProtection ==
    /\ (nav.ev \in {"activated", "redirected"} /\ nav.attempted \in TaskUrls) =>
           IF nav.authenticated
           THEN /\ nav.ev = "activated"
                /\ url = nav.attempted
                /\ returnUrl = NoReturnUrl
           ELSE /\ nav.ev = "redirected"
                /\ url = LoginUrl
                /\ returnUrl = nav.attempted
    /\ (nav.ev \in {"activated", "loginSuccess"} /\ url \in TaskUrls) =>
           nav.authenticated

\* the guard has sent a user who is not authenticated from the detail page
\* to /login
C19_Witness ==
    /\ nav.ev = "redirected"
    /\ nav.attempted = <<"tasks", "s1">>
    /\ url = LoginUrl

\* C20: a successful login navigates to the returnUrl the login page was
\* opened with, and to /tasks only when no returnUrl is present.
C20_LoginReturnsToAttempted ==
    nav.ev = "loginSuccess" =>
        url = (IF nav.returnUrl # NoReturnUrl THEN nav.returnUrl ELSE TasksUrl)

(* ---------------------------------------------------------------------- *)
(* errorInterceptor                                                        *)
(* ---------------------------------------------------------------------- *)
\* the message of case 401
SessionExpiredMessage == "Your session has expired. Please login again."

\* a response with status 401
UnauthorizedResponse ==
    [nested |-> Undef, message |-> "Unauthorized", status |-> 401,
     httpMessage |-> "Http failure response"]

\* errorBody?.error?.message || errorBody?.message || fallback
BodyMessageOr(e, fallback) ==
    IF e.nested # Undef /\ e.nested # "" THEN e.nested
    ELSE IF e.message # Undef /\ e.message # "" THEN e.message
    ELSE fallback

\* the switch on error.status (server-side branch)
ErrorMessage(e) ==
    CASE e.status = 0 ->
             "Unable to connect to server. Please check your internet connection."
      [] e.status = 400 ->
             BodyMessageOr(e, "Invalid request. Please check your input.")
      [] e.status = 401 -> SessionExpiredMessage
      [] e.status = 403 ->
             BodyMessageOr(e, "You do not have permission to perform this action.")
      [] e.status = 404 ->
             BodyMessageOr(e, "The requested resource was not found.")
      [] e.status = 409 ->
             BodyMessageOr(e, "A conflict occurred. The resource may have been modified.")
      [] e.status = 422 ->
             BodyMessageOr(e, "Validation failed. Please check your input.")
      [] e.status = 500 -> "Server error. Please try again later."
      [] e.status = 502 ->
             "Server is temporarily unavailable. Please try again later."
      [] e.status = 503 ->
             "Service is temporarily unavailable. Please try again later."
      [] OTHER ->
             BodyMessageOr(e, "Error " \o ToString(e.status) \o ": "
                                 \o OrElse(e.httpMessage, "An error occurred"))

\* the error the interceptor passes on: an Error with the message and the
\* status, and no body
ErrorInterceptor(e) ==
    [nested |-> Undef, message |-> Undef, status |-> e.status,
     httpMessage |-> ErrorMessage(e)]

\* an interceptor that, on 401, navigates to /login and leaves the session
\* as it is
ErrorInterceptorKeepsSession(status) ==
    IF status = 401
    THEN /\ UNCHANGED <<token, storedUser, currentUser, loginReq, authEv>>
         /\ url' = LoginUrl
         /\ returnUrl' = url
         /\ nav' = [Navigated("expired", LoginUrl)
                       EXCEPT !.message = SessionExpiredMessage]
    ELSE UNCHANGED <<token, storedUser, currentUser, url, returnUrl, nav,
                     loginReq, authEv>>

\* what the interceptor does besides mapping the message, for a response of
\* the given status: on 401 authService.logout() and router.navigate to
\* /login with returnUrl = router.url (LoginComponent.ngOnInit then finds
\* the user not authenticated and stays)
ErrorInterceptorSession(status) ==
    IF status = 401
    THEN /\ token' = Null
         /\ storedUser' = Null
         /\ currentUser' = Null
         /\ authEv' = "logout"
         /\ url' = LoginUrl
         /\ returnUrl' = url
         /\ nav' = [Navigated("expired", LoginUrl)
                       EXCEPT !.message = SessionExpiredMessage]
    ELSE UNCHANGED <<token, storedUser, currentUser, url, returnUrl, nav,
                     authEv>>

\* the statuses the backend answers a failing GET /tasks with
SessionErrors == ErrorResponses \cup {UnauthorizedResponse}

\* GET /tasks fails; the message is the one TaskService.handleError makes of
\* the error the interceptor passes on
ServerListFails(g, e) ==
    /\ g.st = "sent"
    /\ gets' = (gets \ {g}) \cup
           {[g EXCEPT !.st = "err", !.status = e.status,
                      !.err = HandleError(ErrorInterceptor(e))]}
    /\ UNCHANGED <<client, server, nextId, pending>>

\* the failure of a GET /tasks arrives: the interceptor, then loadTasks'
\* catchError
LoadFailIntercepted(g) ==
    /\ LoadFail(g)
    /\ ErrorInterceptorSession(g.status)
    /\ UNCHANGED <<loginReq, registerReq>>

\* POST /auth/login is answered with 401
ServerLoginUnauthorized ==
    /\ loginReq = "sent"
    /\ loginReq' = "unauthorized"
    /\ UNCHANGED <<token, storedUser, currentUser, url, returnUrl, nav,
                   registerReq, authEv>>

\* the 401 of the login arrives: the interceptor, then LoginComponent's
\* error handler
LoginUnauthorized ==
    /\ loginReq = "unauthorized"
    /\ loginReq' = "failed"
    /\ ErrorInterceptorSession(UnauthorizedResponse.status)
    /\ UNCHANGED registerReq

\* The user navigates, logs in and out while the list of tasks is loaded
\* and reloaded; the backend answers every request with success or with an
\* error, 401 included.
NextSession ==
    \/ NextAuth
    \/ LoadTasks /\ UNCHANGED authVars
    \/ \E g \in gets : ServerList(g) /\ UNCHANGED authVars
    \/ \E g \in gets, e \in SessionErrors : ServerListFails(g, e)
           /\ UNCHANGED authVars
    \/ \E g \in gets : LoadSuccess(g) /\ UNCHANGED authVars
    \/ \E g \in gets : LoadFailIntercepted(g)
    \/ ServerLoginUnauthorized /\ UNCHANGED taskVars
    \/ LoginUnauthorized /\ UNCHANGED taskVars

SpecSession == Init /\ [][NextSession]_vars

\* the session has ended: nothing is stored, nobody is current, the router
\* is at /login with the URL it was at as returnUrl, and the error passed
\* on carries the message of case 401
SessionEnded ==
    /\ token' = Null
    /\ storedUser' = Null
    /\ currentUser' = Null
    /\ ~IsAuthenticated'
    /\ url' = LoginUrl
    /\ returnUrl' = url
    /\ nav'.ev = "expired"
    /\ nav'.message = "Your session has expired. Please login again."

\* C21: when the answer to a request arrives with status 401 the session is
\* ended (logout, navigation to /login with returnUrl = the current URL,
\* the error passed on says that the session has expired); when it arrives
\* with any other status, the stored token and the current user stay as
\* they are.
C21_UnauthorizedEndsSession ==
    [][/\ \A g \in gets :
              (g.st # "sent" /\ g \notin gets') =>
                  IF g.status = 401
                  THEN SessionEnded
                  ELSE UNCHANGED <<token, storedUser, currentUser>>
       /\ (loginReq = "unauthorized" /\ loginReq' # loginReq) => SessionEnded
       /\ (loginReq = "err" /\ loginReq' # loginReq) =>
              UNCHANGED <<token, storedUser, currentUser>>]_vars

\* a 401 for the list of tasks has ended the session of a user who was at
\* the task list
C21_Witness ==
    /\ nav.ev = "expired"
    /\ last.ev = "loadFail"
    /\ returnUrl = TasksUrl
    /\ url = LoginUrl
    /\ token = Null

(* ---------------------------------------------------------------------- *)
(* Runs in which no request fails                                          *)
(* ---------------------------------------------------------------------- *)
\* Every call of Calls, a backend that rejects nothing, and the arrival of
\* the successes only: a request the backend cannot serve (an update or
\* delete of an id it does not hold) stays outstanding.
NextSuccess ==
    \/ Tick
    \/ Calls
    \/ \E o \in pending : ServerCreate(o) /\ UNCHANGED authVars
    \/ \E o \in pending : ServerUpdate(o) /\ UNCHANGED authVars
    \/ \E o \in pending : ServerDelete(o) /\ UNCHANGED authVars
    \/ \E g \in gets : ServerList(g) /\ UNCHANGED authVars
    \/ \E g \in gets : LoadSuccess(g) /\ UNCHANGED authVars
    \/ \E o \in pending : CreateSuccess(o) /\ UNCHANGED authVars
    \/ \E o \in pending : UpdateSuccess(o) /\ UNCHANGED authVars
    \/ \E o \in pending : DeleteSuccess(o) /\ UNCHANGED authVars

SpecSuccess == Init /\ [][NextSuccess]_vars

\* the entries of a sequence
Entries(s) == { s[i] : i \in 1..Len(s) }

\* C22: in a run in which no request fails, whenever every invoked load,
\* create, update and delete has settled, the collection holds exactly the
\* tasks the backend holds, each once and with the backend's field values.
C22_ConvergesWithBackend ==
    (pending = {} /\ gets = {}) =>
        /\ Entries(tasks) = Entries(MapTasksFromApi(server))
        /\ Len(tasks) = Len(server)

\* in the race of an update and a delete of the loaded task: the delete has
\* been invoked, the backend has removed the task and the delete's success
\* has arrived
DeleteConfirmed ==
    /\ nextUid = 3
    /\ server = <<>>
    /\ \A o \in pending : o.kind # "delete"

\* C23: what a mutation that has succeeded did is not undone by the rollback
\* of another mutation invoked before that success: once the delete is
\* confirmed, the failure of the update that was in flight when the delete
\* was invoked does not bring the deleted task back.
C23_ConfirmedDeleteStaysDeleted ==
    (DeleteConfirmed /\ last.ev = "updateFail") =>
        FindIndex(tasks, InitialTask.id) = 0

\* no request of the state service is outstanding
NothingInFlight == pending = {} /\ gets = {}

\* C24: refreshTasks(), called while nothing is in flight, sends a new GET;
\* it never ends by publishing the list TaskService has cached.
C24_RefreshFetchesAnew == ~(last.ev = "refreshReplayed" /\ NothingInFlight)

\* the handler that ran in this step, when it is one of evs
Ran(evs) == last' # last /\ last'.ev \in evs

\* what C25 says of the calls that find a list cached or being fetched, and
\* of the mutations that settle: a call that finds the cache in use sends
\* nothing, one that finds a cached list publishes that list, a success
\* clears the cache and a failure leaves it as it is
CacheSharedAndCleared ==
    /\ Ran({"loadReplayed", "refreshReplayed"}) =>
           tasks' = tasksCache.data /\ UNCHANGED <<gets, nextGet>>
    /\ Ran({"loadJoined", "refreshJoined"}) => UNCHANGED <<gets, nextGet>>
    /\ Ran({"createSuccess", "updateSuccess", "deleteSuccess"}) =>
           tasksCache' = NoCache
    /\ Ran({"createFail", "updateFail", "deleteFail"}) => UNCHANGED tasksCache

\* C25: getAllTasks() sends a GET only when the cache is empty, so the calls
\* made with no successful create, update or delete in between share one GET
\* and its list; a success clears the cache, a failure leaves it untouched.
C25_OneGetUntilMutationSucceeds ==
    [][/\ nextGet' # nextGet => tasksCache = NoCache
       /\ CacheSharedAndCleared]_vars

\* C25, amended: a GET is also sent when the GET of the cached observable
\* has failed.
C25_OneGetUntilSuccessOrFailedGet ==
    [][/\ nextGet' # nextGet =>
              tasksCache = NoCache \/ tasksCache.st = "error"
       /\ CacheSharedAndCleared]_vars

\* a second GET is under way for a cache that a successful mutation has
\* cleared, the first GET having succeeded
C25_Witness ==
    /\ last.ev \in {"loadSent", "refreshSent"}
    /\ last.before # <<>>
    /\ error = Null
    /\ tasksCache.uid = 2

\* the GET that the constructor's loadTasks() sent has not been settled
InitialLoadOutstanding == \E g \in gets : g.uid = 1

\* C26: a new TaskStateService publishes an empty collection and no error
\* and has started exactly one load; isLoading is true for as long as that
\* load has not settled.
C26_LoadingUntilInitialLoadSettles ==
    /\ last.ev = "constructor" =>
           /\ tasks = <<>> /\ error = Null
           /\ nextGet = 2 /\ \A g \in gets : g.uid = 1
    /\ InitialLoadOutstanding => loading

LoadEvents ==
    {k \o r : k \in {"load", "refresh"},
              r \in {"Skipped", "Replayed", "Joined", "Sent"}}

\* C27: loadTasks() or refreshTasks() called while a create, update or
\* delete is outstanding and isLoading is true is skipped: it sends no GET
\* and leaves the collection, isLoading, lastError and the cache as they
\* are; nothing is kept that would fetch later.
C27_LoadSkippedDuringMutation ==
    [][(loading /\ pending # {} /\ Ran(LoadEvents)) =>
          /\ last'.ev \in {"loadSkipped", "refreshSkipped"}
          /\ UNCHANGED <<tasks, loading, error, tasksCache, gets, nextGet,
                         pending>>]_vars

\* a refresh has just been skipped while a mutation is outstanding and no
\* GET is under way
C27_Witness ==
    /\ last.ev = "refreshSkipped"
    /\ loading /\ pending # {}
    /\ gets = {}

\* a load past its guard, a create, update or delete past its existence
\* check, or clearError()
StartEvents ==
    {"loadReplayed", "loadJoined", "loadSent", "refreshReplayed",
     "refreshJoined", "refreshSent", "create", "update", "delete",
     "clearError"}

FailEvents == {"loadFail", "createFail", "updateFail", "deleteFail"}

\* C28: every operation that starts, and clearError(), leaves lastError
\* null, and lastError takes a new non-null value only in the failure of an
\* operation; so it is non-null only if an operation has failed since the
\* most recent start or clearError.
C28_ErrorOnlyFromFailureSinceStart ==
    [][/\ Ran(StartEvents) => error' = Null
       /\ (error' # error /\ error' # Null) => last'.ev \in FailEvents]_vars

\* a mutation has started after the list's GET failed, and lastError is
\* null again
C28_Witness ==
    /\ last.ev \in {"create", "update", "delete"}
    /\ tasksCache.st = "error"
    /\ error = Null

\* C29: once every network call has been answered and its answer handled,
\* isLoading is false and the collection holds no entity with a temporary
\* id.
C29_QuiescentIsSettled ==
    NothingInFlight =>
        /\ loading = FALSE
        /\ \A i \in 1..Len(tasks) : ~IsTempId(tasks[i].id)

(* ---------------------------------------------------------------------- *)
(* AuthService from its construction on                                    *)
(* ---------------------------------------------------------------------- *)
\* what localStorage may hold when the application starts: a token or none,
\* and under the user key nothing, a user as setAuthData stored it, or a
\* string that is not JSON
StoredTokens == {Null, Token}
StoredUsers == {Null, JsonStringify(User), "user"}

\* AuthService's field initializer and constructor (checkAuthStatus) for a
\* localStorage that holds token t and user string u: the session they
\* leave
Constructor(t, u) ==
    IF t # Null /\ GetStoredUser(u) # Null
    THEN [token |-> t, storedUser |-> u, currentUser |-> GetStoredUser(u)]
    ELSE [token |-> Null, storedUser |-> Null, currentUser |-> Null]

InitAuthService ==
    /\ InitTaskState
    /\ \E t \in StoredTokens, u \in StoredUsers :
           /\ token = Constructor(t, u).token
           /\ storedUser = Constructor(t, u).storedUser
           /\ currentUser = Constructor(t, u).currentUser
    /\ url = RootUrl
    /\ returnUrl = NoReturnUrl
    /\ loginReq = "idle"
    /\ registerReq = "idle"
    /\ authEv = "constructor"
    /\ nav = [ev |-> "start", attempted |-> RootUrl,
              authenticated |-> IsAuthenticated,
              returnUrl |-> NoReturnUrl, message |-> ""]

\* RegisterComponent.onSubmit with a valid form: error is cleared and the
\* POST leaves
SubmitRegister ==
    /\ url = RegisterUrl
    /\ registerReq \in {"idle", "failed"}
    /\ registerReq' = "sent"
    /\ UNCHANGED <<token, storedUser, currentUser, url, returnUrl, nav,
                   loginReq, authEv>>

\* the backend creates the account or rejects the registration
ServerRegisterOk ==
    /\ registerReq = "sent"
    /\ registerReq' = "ok"
    /\ UNCHANGED <<token, storedUser, currentUser, url, returnUrl, nav,
                   loginReq, authEv>>

ServerRegisterReject ==
    /\ registerReq = "sent"
    /\ registerReq' = "err"
    /\ UNCHANGED <<token, storedUser, currentUser, url, returnUrl, nav,
                   loginReq, authEv>>

\* AuthService.register's map (setAuthData), then RegisterComponent's next
\* handler: router.navigate(['/tasks'])
RegisterSuccess ==
    /\ registerReq = "ok"
    /\ token' = Token
    /\ storedUser' = JsonStringify(User)
    /\ currentUser' = User
    /\ registerReq' = "idle"
    /\ authEv' = "register"
    /\ url' = TasksUrl
    /\ returnUrl' = NoReturnUrl
    /\ nav' = Navigated("registerSuccess", TasksUrl)
    /\ UNCHANGED loginReq

\* RegisterComponent's error handler: error is set
RegisterFail ==
    /\ registerReq = "err"
    /\ registerReq' = "failed"
    /\ authEv' = "registerFailed"
    /\ UNCHANGED <<token, storedUser, currentUser, url, returnUrl, nav,
                   loginReq>>

\* The user navigates, logs in, registers and logs out, from any content of
\* localStorage; every request is accepted or rejected.
NextAuthService ==
    \/ NextAuth
    \/ SubmitRegister /\ UNCHANGED taskVars
    \/ ServerRegisterOk /\ UNCHANGED taskVars
    \/ ServerRegisterReject /\ UNCHANGED taskVars
    \/ RegisterSuccess /\ UNCHANGED taskVars
    \/ RegisterFail /\ UNCHANGED taskVars

SpecAuthService == InitAuthService /\ [][NextAuthService]_vars

\* the stored token, the stored user and the current user are all present
\* or all absent, and the current user is the stored one
AllOrNothing ==
    \/ token = Null /\ storedUser = Null /\ currentUser = Null
    \/ token # Null /\ storedUser # Null /\ currentUser # Null
                    /\ currentUser = GetStoredUser(storedUser)

\* C30: after construction and after every login, register and logout the
\* stored token, the stored user and the current user are all present or
\* all absent, isAuthenticated() is true exactly when a user is current,
\* and it is false after logout; the failure of a login or of a register
\* leaves the three as they are.
C30_SessionAllOrNothing ==
    /\ [](/\ AllOrNothing
          /\ IsAuthenticated <=> currentUser # Null
          /\ authEv = "logout" => ~IsAuthenticated)
    /\ [][(\/ loginReq = "err" /\ loginReq' = "failed"
           \/ registerReq = "err" /\ registerReq' = "failed") =>
              UNCHANGED <<token, storedUser, currentUser>>]_vars

\* a registration has failed for a user who had logged in meanwhile, and
\* the session is still there
C30_Witness ==
    /\ authEv = "registerFailed"
    /\ registerReq = "failed"
    /\ IsAuthenticated
    /\ storedUser = JsonStringify(User)

====
